---- MODULE Spec2Model ----
(***************************************************************************)
(* State-machine model of PRPs/scripts/prp_runner.py: main() validates the *)
(* arguments, builds the prompt and calls run_model(), which resolves the  *)
(* agent executable, builds the command vector, launches the child and     *)
(* relays its output.  One run of the script is one behaviour.             *)
(***************************************************************************)
EXTENDS Integers, Sequences, FiniteSets, TLC

\* ---------------------------------------------------------------- bounds
\* child exit codes range over 0..MaxExit
MaxExit == 2
\* a streaming child writes at most MaxLines lines on its standard output
MaxLines == 2
\* the pipe of the child's standard error holds at most PipeCap units
PipeCap == 2
\* prompts given to the command builders have at most MaxPromptLen characters
MaxPromptLen == 4

\* ------------------------------------------------------------- constants
None == "None"

\* the value of the prompt before build_prompt has run (line 418): a sequence,
\* as the prompt is, and no sequence of characters
Unbuilt == <<None>>
Drivers == {"codex", "claude", "noop"}
RealDrivers == {"codex", "claude"}
Formats == {"text", "json", "stream-json"}
\* value of --cli when the caller overrides the executable
Override == "mycli"
marker == "PRP TEST OK"
ALLOWED_TOOLS == "Edit,Bash,Write,MultiEdit,NotebookEdit,WebFetch,Agent,LS,Grep,Read,NotebookRead,TodoRead,TodoWrite,WebSearch"
\* characters a prompt is made of: a letter, blanks and line breaks
Alphabet == {"a", " ", "\n", "\r"}
LineBreaks == {"\n", "\r"}
Whitespace == {" ", "\t", "\n", "\r"}
\* build_prompt returns META_HEADER + document text, a sequence of
\* characters; sample results (header line, indented line, blank line, body)
PromptA == <<"a", "\n", " ", "a", " ", "\n", "\n", "a", "\n">>
PromptB == <<"a", " ", "a">>
Prompts == {PromptA, PromptB}

VARIABLES
    pc,          \* position of the single caller thread
    args,        \* parsed command line (argparse namespace)
    env,         \* what the file system / platform answers during this run
    prompt,      \* result of build_prompt, None before
    cur,         \* parameters of the active run_model() call
    resolved_cli,\* local of run_model
    cmd,         \* command vector built for the active call
    ps,          \* secondary (PowerShell) lookup: index of helper tried, helper alive
    child,       \* the agent child process
    launches,    \* history of launch attempts of the agent executable
    lines,       \* stream-json: child output lines read so far
    out,         \* the run's standard output
    err,         \* the run's error stream (diagnostic tags)
    exc,         \* where an exception was raised that no handler in run_model took
    trace,       \* erreur.txt: "none", "written", "failed"
    exit,        \* exit status of the run, -1 while running
    sigint       \* an interrupt was delivered to the streaming relay

vars == <<pc, args, env, prompt, cur, resolved_cli, cmd, ps, child, launches,
          lines, out, err, exc, trace, exit, sigint>>

\* ----------------------------------------------------------- executables
\* shutil.which returns the full path of a name found on the search path
PathOf(name) ==
    CASE name = "codex" -> "/bin/codex"
      [] name = "claude" -> "/bin/claude"
      [] name = Override -> "/bin/mycli"
      [] OTHER -> name

\* mutant of which: an override is taken verbatim, without any lookup
which_override_verbatim(cli) ==
    IF cli = Override THEN cli
    ELSE IF env.onPath THEN PathOf(cli) ELSE None

\* shutil.which(cli): a name (or a path returned by an earlier lookup) is
\* found iff the search path of this run holds it; the file system does not
\* change during the run.
which(cli) == IF env.onPath THEN PathOf(cli) ELSE None

\* sys.exit(n) / process exit status is one byte
ExitStatus(n) == n % 256

\* ------------------------------------------------------------------ Init
Args == [prp_given : BOOLEAN, driver : Drivers, cli : {None, Override},
         interactive : BOOLEAN, output_format : Formats]

Env == [doc_exists : BOOLEAN, onPath : BOOLEAN, win : BOOLEAN,
        pwsh : {"none", "powershell", "pwsh"}]

NoChild == [state |-> "none", rc |-> -1, stdout |-> None, terminated |-> FALSE,
            errpipe |-> 0, blocked |-> FALSE]

Init ==
    /\ pc = "main"
    /\ args \in Args
    /\ env \in Env
    /\ prompt = Unbuilt
    /\ cur = [driver |-> None, cli |-> None, interactive |-> FALSE, output_format |-> None]
    /\ resolved_cli = None
    /\ cmd = <<>>
    /\ ps = [idx |-> 0, alive |-> FALSE, n |-> 0]
    /\ child = NoChild
    /\ launches = <<>>
    /\ lines = <<>>
    /\ out = <<>>
    /\ err = <<>>
    /\ exc = None
    /\ trace = "none"
    /\ exit = -1
    /\ sigint = FALSE

\* ------------------------------------------------------------------ main
\* sys.exit(message): message on the error stream, exit status 1, raised as
\* SystemExit, which main re-raises without writing erreur.txt.
SysExitMsg(tag) ==
    /\ err' = Append(err, tag)
    /\ exit' = 1
    /\ pc' = "done"

\* mutant of main_validate: the existence check of the document is missing
main_validate_no_exists_check ==
    /\ pc = "main"
    /\ IF ~args.prp_given
       THEN SysExitMsg("Must supply --prp or --prp-path")
       ELSE /\ pc' = "chdir"
            /\ UNCHANGED <<err, exit>>
    /\ UNCHANGED <<sigint, args, env, prompt, cur, resolved_cli, cmd, ps, child,
                   launches, lines, out, exc, trace>>

\* lines 410-415: argument validation, outside the try block
main_validate ==
    /\ pc = "main"
    /\ IF ~args.prp_given
       THEN SysExitMsg("Must supply --prp or --prp-path")
       ELSE IF ~env.doc_exists
            THEN SysExitMsg("PRP not found")
            ELSE /\ pc' = "chdir"
                 /\ UNCHANGED <<err, exit>>
    /\ UNCHANGED <<sigint, args, env, prompt, cur, resolved_cli, cmd, ps, child,
                   launches, lines, out, exc, trace>>

\* An exception raised outside main's try block: the interpreter prints the
\* traceback and exits with status 1; erreur.txt is not touched.
Uncaught(site) ==
    /\ exc' = site
    /\ err' = Append(err, "Traceback")
    /\ exit' = 1
    /\ pc' = "done"
    /\ UNCHANGED trace

\* line 417: os.chdir(ROOT), outside the try block
main_chdir ==
    /\ pc = "chdir"
    /\ \/ /\ pc' = "build_prompt"
          /\ UNCHANGED <<err, exc, exit, trace>>
       \/ Uncaught("chdir")
    /\ UNCHANGED <<sigint, args, env, prompt, cur, resolved_cli, cmd, ps, child,
                   launches, lines, out>>

\* lines 73-74 and 418: prompt = build_prompt(prp_path), outside the try
\* block; read_text raises when the document cannot be read or decoded.
build_prompt ==
    /\ pc = "build_prompt"
    /\ \/ /\ \E p \in Prompts : prompt' = p
          /\ cur' = [driver |-> args.driver, cli |-> args.cli,
                     interactive |-> args.interactive,
                     output_format |-> args.output_format]
          /\ pc' = "run_model"
          /\ UNCHANGED <<err, exc, exit, trace>>
       \/ /\ Uncaught("build_prompt")
          /\ UNCHANGED <<prompt, cur>>
    /\ UNCHANGED <<sigint, args, env, resolved_cli, cmd, ps, child, launches, lines, out>>

\* lines 430-441: except Exception in main: write erreur.txt (a failing
\* write is swallowed), message on the error stream, sys.exit(1).
Unexpected(site) ==
    /\ exc' = site
    /\ \E w \in {"written", "failed"} : trace' = w
    /\ err' = Append(err, "An unexpected error occurred")
    /\ exit' = 1
    /\ pc' = "done"

\* run_model returned normally: main returns, exit status 0
Return ==
    /\ exit' = 0
    /\ pc' = "done"

\* ------------------------------------------------------------- run_model
Txt(s) == [k |-> "text", s |-> s]
\* print of a sequence of characters
TxtChars(c) == [k |-> "text", chars |-> c]
Json(j) == [k |-> "json", j |-> j]

\* JSON values (what json.loads returns and json.dumps prints), tagged by
\* their Python type
JStr(s) == [t |-> "str", s |-> s]
JNum(n) == [t |-> "num", n |-> n]
JBool(b) == [t |-> "bool", b |-> b]
JList(repr) == [t |-> "list", repr |-> repr]
JObj(o) == [t |-> "dict", o |-> o]
IsDict(v) == v.t = "dict"
\* dict.get(key, default)
Get(v, key, default) == IF key \in DOMAIN v.o THEN v.o[key] ELSE default
JNone == [t |-> "NoneType"]

\* mutant of NoopOutput: the json branch is missing, json falls to text
NoopOutput_json_as_text(interactive, output_format, p) ==
    IF interactive
    THEN <<Txt("[noop] Interactive session start.\n"), TxtChars(p),
           Txt("\n[noop] " \o marker)>>
    ELSE IF output_format = "stream-json"
    THEN <<Json(JObj([type |-> JStr("system"), subtype |-> JStr("init"),
                      session_id |-> JStr("noop-session")])),
           Json(JObj([type |-> JStr("assistant"),
                      message |-> JObj([content |-> JStr("Reading PRP...")])])),
           Json(JObj([type |-> JStr("assistant"),
                      message |-> JObj([content |-> JStr(marker)])])),
           Json(JObj([type |-> JStr("result"), subtype |-> JStr("success"),
                      result |-> JStr(marker), cost_usd |-> JNum(0),
                      duration_ms |-> JNum(1), num_turns |-> JNum(1)]))>>
    ELSE <<Txt(marker)>>

\* lines 149-191: what the no-operation driver prints on standard output,
\* one element per print call
NoopOutput(interactive, output_format, p) ==
    IF interactive
    THEN <<Txt("[noop] Interactive session start.\n"), TxtChars(p),
           Txt("\n[noop] " \o marker)>>
    ELSE IF output_format = "stream-json"
    THEN <<Json(JObj([type |-> JStr("system"), subtype |-> JStr("init"),
                      session_id |-> JStr("noop-session")])),
           Json(JObj([type |-> JStr("assistant"),
                      message |-> JObj([content |-> JStr("Reading PRP...")])])),
           Json(JObj([type |-> JStr("assistant"),
                      message |-> JObj([content |-> JStr(marker)])])),
           Json(JObj([type |-> JStr("result"), subtype |-> JStr("success"),
                      result |-> JStr(marker), cost_usd |-> JNum(0),
                      duration_ms |-> JNum(1), num_turns |-> JNum(1)]))>>
    ELSE IF output_format = "json"
    THEN <<Json(JObj([type |-> JStr("result"), subtype |-> JStr("success"),
                      result |-> JStr(marker), is_error |-> JBool(FALSE),
                      cost_usd |-> JNum(0), duration_ms |-> JNum(1),
                      session_id |-> JStr("noop-session")]))>>
    ELSE <<Txt(marker)>>

\* mutant of run_model: the no-operation branch prints and, its return
\* missing, falls through to the resolution of a real executable
run_model_noop_falls_through ==
    /\ pc = "run_model"
    /\ IF cur.driver = "noop"
       THEN /\ out' = out \o NoopOutput(cur.interactive, cur.output_format, prompt)
            /\ cur' = [cur EXCEPT !.cli = "claude"]
            /\ pc' = "resolve"
            /\ UNCHANGED exit
       ELSE /\ cur' = [cur EXCEPT !.cli = IF cur.cli = None
                                           THEN (IF cur.driver = "codex" THEN "codex" ELSE "claude")
                                           ELSE cur.cli]
            /\ pc' = "resolve"
            /\ UNCHANGED <<out, exit>>
    /\ UNCHANGED <<sigint, args, env, prompt, resolved_cli, cmd, ps, child, launches,
                   lines, err, exc, trace>>

\* lines 147-193: entry of run_model; the no-operation driver prints its
\* canned response and returns, a real driver defaults cli from the driver.
run_model ==
    /\ pc = "run_model"
    /\ IF cur.driver = "noop"
       THEN /\ out' = out \o NoopOutput(cur.interactive, cur.output_format, prompt)
            /\ Return
            /\ UNCHANGED cur
       ELSE /\ cur' = [cur EXCEPT !.cli = IF cur.cli = None
                                           THEN (IF cur.driver = "codex" THEN "codex" ELSE "claude")
                                           ELSE cur.cli]
            /\ pc' = "resolve"
            /\ UNCHANGED <<out, exit>>
    /\ UNCHANGED <<sigint, args, env, prompt, resolved_cli, cmd, ps, child, launches,
                   lines, err, exc, trace>>

\* lines 196-197: resolved_cli = shutil.which(cli); on Windows a failed
\* lookup continues with the PowerShell helpers.
resolve ==
    /\ pc = "resolve"
    /\ resolved_cli' = which(cur.cli)
    /\ IF which(cur.cli) = None /\ env.win
       THEN /\ pc' = "ps_lookup"
            /\ ps' = [ps EXCEPT !.idx = 1]
       ELSE /\ pc' = "resolved"
            /\ UNCHANGED ps
    /\ UNCHANGED <<sigint, args, env, prompt, cur, cmd, child, launches, lines, out,
                   err, exc, trace, exit>>

PsHelpers == <<"powershell", "pwsh">>

\* after helper number i: the next helper, or the end of the loop
PsAdvance(i, found) ==
    IF found \/ i = Len(PsHelpers)
    THEN /\ pc' = "resolved"
         /\ ps' = [ps EXCEPT !.idx = 0, !.alive = FALSE]
    ELSE /\ pc' = "ps_lookup"
         /\ ps' = [ps EXCEPT !.idx = i + 1, !.alive = FALSE]

\* mutant of ps_start: the helper is started and not waited for; the loop
\* goes on to the next helper at once
ps_start_no_wait ==
    /\ pc = "ps_lookup"
    /\ IF ps.idx = Len(PsHelpers)
       THEN /\ pc' = "resolved"
            /\ ps' = [ps EXCEPT !.idx = 0, !.alive = TRUE, !.n = ps.n + 1]
       ELSE /\ pc' = "ps_lookup"
            /\ ps' = [ps EXCEPT !.idx = ps.idx + 1, !.alive = TRUE, !.n = ps.n + 1]
    /\ UNCHANGED <<sigint, args, env, prompt, cur, resolved_cli, cmd, child, launches,
                   lines, out, err, exc, trace, exit>>

\* lines 199-205, 210-212: subprocess.run([pwsh, ...]) starts the helper, or
\* fails to start it (the exception is ignored and the loop continues).
ps_start ==
    /\ pc = "ps_lookup"
    /\ ~ps.alive
    /\ \/ /\ ps' = [ps EXCEPT !.alive = TRUE, !.n = ps.n + 1]
          /\ UNCHANGED pc
       \/ /\ env.pwsh # PsHelpers[ps.idx]
          /\ PsAdvance(ps.idx, FALSE)
    /\ UNCHANGED <<sigint, args, env, prompt, cur, resolved_cli, cmd, child, launches,
                   lines, out, err, exc, trace, exit>>

\* lines 206-209: the helper has exited; a non-empty candidate that exists on
\* disk is accepted and ends the loop.
ps_finish ==
    /\ pc = "ps_lookup"
    /\ ps.alive
    /\ IF env.pwsh = PsHelpers[ps.idx]
       THEN /\ resolved_cli' = PathOf(cur.cli)
            /\ PsAdvance(ps.idx, TRUE)
       ELSE /\ UNCHANGED resolved_cli
            /\ PsAdvance(ps.idx, FALSE)
    /\ UNCHANGED <<sigint, args, env, prompt, cur, cmd, child, launches, lines, out,
                   err, exc, trace, exit>>

RECURSIVE SplitAcc(_, _)
\* str.splitlines, scanning s with the current line in line: a line ends at
\* "\n", "\r" or "\r\n"; a final line break opens no further line
SplitAcc(s, line) ==
    IF s = <<>> THEN (IF line = <<>> THEN <<>> ELSE <<line>>)
    ELSE IF Head(s) = "\r" /\ Len(s) >= 2 /\ s[2] = "\n"
    THEN <<line>> \o SplitAcc(Tail(Tail(s)), <<>>)
    ELSE IF Head(s) \in LineBreaks
    THEN <<line>> \o SplitAcc(Tail(s), <<>>)
    ELSE SplitAcc(Tail(s), Append(line, Head(s)))

\* str.splitlines
splitlines(p) == SplitAcc(p, <<>>)

RECURSIVE lstrip(_)
lstrip(s) == IF s # <<>> /\ Head(s) \in Whitespace THEN lstrip(Tail(s)) ELSE s

RECURSIVE rstrip(_)
rstrip(s) ==
    IF s # <<>> /\ s[Len(s)] \in Whitespace
    THEN rstrip(SubSeq(s, 1, Len(s) - 1)) ELSE s

\* str.strip
strip(s) == rstrip(lstrip(s))

RECURSIVE join(_, _)
\* sep.join(parts)
join(sep, parts) ==
    IF parts = <<>> THEN <<>>
    ELSE IF Len(parts) = 1 THEN Head(parts)
    ELSE Head(parts) \o sep \o join(sep, Tail(parts))

\* lines 114 and 118: " ".join(line.strip() for line in prompt.splitlines()).strip()
Flatten(p) ==
    strip(join(<<" ">>, [i \in 1..Len(splitlines(p)) |-> strip(splitlines(p)[i])]))

\* elements of a command vector: a literal string, or a sequence of characters
Lit(s) == [s |-> s]
Chars(c) == [chars |-> c]

\* mutant of _build_cmd_codex: the headless branch passes the prompt as it is
_build_cmd_codex_headless_raw(interactive, output_format, cli, p) ==
    IF interactive
    THEN <<Lit(cli), Chars(Flatten(p))>>
    ELSE <<Lit(cli), Chars(p)>>

\* lines 105-119: the prompt is passed positionally, flattened, by either branch
_build_cmd_codex(interactive, output_format, cli, p) ==
    IF interactive
    THEN <<Lit(cli), Chars(Flatten(p))>>
    ELSE <<Lit(cli), Chars(Flatten(p))>>

\* mutant of _build_cmd_claude: the interactive branch passes the prompt too
_build_cmd_claude_interactive_prompt(interactive, output_format, cli, p) ==
    IF interactive
    THEN <<Lit(cli), Lit("-p"), Chars(p), Lit("--allowedTools"), Lit(ALLOWED_TOOLS)>>
    ELSE <<Lit(cli), Lit("-p"), Chars(p), Lit("--allowedTools"), Lit(ALLOWED_TOOLS),
           Lit("--output-format"), Lit(output_format)>>

\* lines 122-137
_build_cmd_claude(interactive, output_format, cli, p) ==
    IF interactive
    THEN <<Lit(cli), Lit("--allowedTools"), Lit(ALLOWED_TOOLS)>>
    ELSE <<Lit(cli), Lit("-p"), Chars(p), Lit("--allowedTools"), Lit(ALLOWED_TOOLS),
           Lit("--output-format"), Lit(output_format)>>

\* mutant of CallNoop: the fallback drops the interactive flag
CallNoop_headless ==
    /\ cur' = [cur EXCEPT !.driver = "noop", !.cli = None, !.interactive = FALSE]
    /\ pc' = "run_model"

\* lines 220-226, 247-253, 340-346: the recursive call
\* run_model(prompt, driver="noop", cli=None, interactive, output_format)
CallNoop ==
    /\ cur' = [cur EXCEPT !.driver = "noop", !.cli = None]
    /\ pc' = "run_model"

\* lines 231-234: the command builder of the driver
BuildCmd(driver, interactive, output_format, cli, p) ==
    IF driver = "codex"
    THEN _build_cmd_codex(interactive, output_format, cli, p)
    ELSE _build_cmd_claude(interactive, output_format, cli, p)

\* lines 214-236 and the dispatch at 238/270/332/376: an unresolved real
\* driver falls back to the no-operation driver; otherwise the resolved path
\* replaces cli and the command vector is built; any other driver ends in
\* sys.exit("Unknown driver").
resolved ==
    /\ pc = "resolved"
    /\ IF resolved_cli = None /\ cur.driver \in RealDrivers
       THEN /\ err' = Append(err, "CLI executable not found. Falling back to noop")
            /\ CallNoop
            /\ UNCHANGED <<cmd, exit>>
       ELSE IF cur.driver \in RealDrivers
       THEN /\ cur' = [cur EXCEPT !.cli = resolved_cli]
            /\ cmd' = BuildCmd(cur.driver, cur.interactive, cur.output_format,
                               resolved_cli, prompt)
            /\ pc' = IF cur.interactive THEN "interactive" ELSE cur.output_format
            /\ UNCHANGED <<err, exit>>
       ELSE /\ SysExitMsg("Unknown driver")
            /\ UNCHANGED <<cur, cmd>>
    /\ UNCHANGED <<sigint, args, env, prompt, resolved_cli, ps, child, launches, lines,
                   out, exc, trace>>

\* ---------------------------------------------------------------- launch
\* what the operating system answers to a launch of cmd
Outcomes == {"ok", "FileNotFoundError", "OSError"}
ExitCodes == 0..MaxExit

Attempt(o) == [driver |-> cur.driver, exe |-> cmd[1].s,
               interactive |-> cur.interactive,
               output_format |-> cur.output_format, outcome |-> o]

Running == [state |-> "running", rc |-> -1, stdout |-> None, terminated |-> FALSE,
            errpipe |-> 0, blocked |-> FALSE]
Exited(rc) == [child EXCEPT !.state = "exited", !.rc = rc]

\* mutant of CallHeadlessText: the retry keeps the requested output format
CallHeadlessText_keep_format ==
    /\ cur' = [cur EXCEPT !.interactive = FALSE]
    /\ pc' = "run_model"

\* the recursive call run_model(prompt, driver=driver, cli=cli,
\* interactive=False, output_format="text") of lines 260-266
CallHeadlessText ==
    /\ cur' = [cur EXCEPT !.interactive = FALSE, !.output_format = "text"]
    /\ pc' = "run_model"

\* mutant of InteractiveHandler: the OSError clause stands first and takes
\* FileNotFoundError (a subclass of OSError) as well
InteractiveHandler_oserror_first(o) == "headless"

\* lines 242 and 254: the except clause that takes a launch failure; the
\* FileNotFoundError clause stands before the OSError clause
InteractiveHandler(o) ==
    IF o = "FileNotFoundError" THEN "noop" ELSE "headless"

\* lines 238-266: subprocess.run(cmd, check=True) in interactive mode, up to
\* the start of the child
launch_interactive ==
    /\ pc = "interactive"
    /\ \E o \in Outcomes :
        /\ launches' = Append(launches, Attempt(o))
        /\ CASE o = "ok" ->
                  /\ child' = Running
                  /\ pc' = "interactive_wait"
                  /\ UNCHANGED <<cur, err>>
             [] o # "ok" /\ InteractiveHandler(o) = "noop" ->
                  /\ err' = Append(err, "Interactive CLI not found. Falling back to noop")
                  /\ CallNoop
                  /\ UNCHANGED child
             [] o # "ok" /\ InteractiveHandler(o) = "headless" ->
                  /\ err' = Append(err, "Interactive launch failed. Falling back to headless text run")
                  /\ CallHeadlessText
                  /\ UNCHANGED child
    /\ UNCHANGED <<sigint, args, env, prompt, resolved_cli, cmd, ps, lines, out, exc,
                   trace, exit>>

\* check=True: a non-zero return code raises CalledProcessError, which no
\* handler of run_model takes (it is not an OSError)
run_checked ==
    \E rc \in ExitCodes :
        /\ child' = Exited(rc)
        /\ IF rc # 0
           THEN Unexpected("CalledProcessError")
           ELSE Return /\ UNCHANGED <<err, exc, trace>>

\* lines 241 and 267: the interactive child exits
interactive_wait ==
    /\ pc = "interactive_wait"
    /\ run_checked
    /\ UNCHANGED <<sigint, args, env, prompt, cur, resolved_cli, cmd, ps, launches,
                   lines, out>>

\* line 377: subprocess.run(cmd, check=True) in headless text mode, up to the
\* start of the child; no handler around it
launch_text ==
    /\ pc = "text"
    /\ \E o \in Outcomes :
        /\ launches' = Append(launches, Attempt(o))
        /\ IF o = "ok"
           THEN /\ child' = Running
                /\ pc' = "text_wait"
                /\ UNCHANGED <<err, exc, trace, exit>>
           ELSE /\ Unexpected(o)
                /\ UNCHANGED child
    /\ UNCHANGED <<sigint, args, env, prompt, cur, resolved_cli, cmd, ps, lines, out>>

\* line 377: the headless text child exits
text_wait ==
    /\ pc = "text_wait"
    /\ run_checked
    /\ UNCHANGED <<sigint, args, env, prompt, cur, resolved_cli, cmd, ps, launches,
                   lines, out>>

\* lines 318-325 and 347-353: diagnostic, then sys.exit(returncode)
SysExitCode(rc) ==
    /\ err' = err \o <<"Runner failed with exit code", "Error: stderr">>
    /\ exit' = ExitStatus(rc)
    /\ pc' = "done"

\* ------------------------------------------------------------- json mode
\* sample texts a child writes (whole stdout in json mode, one line in
\* stream-json mode)
T_init == "{\"type\": \"system\", \"subtype\": \"init\", \"session_id\": \"s1\"}\n"
T_assistant == "{\"type\": \"assistant\", \"message\": {\"content\": \"working\"}}\n"
T_assistant_str == "{\"type\": \"assistant\", \"message\": \"working\"}\n"
T_result == "  {\"type\": \"result\", \"subtype\": \"success\", \"cost_usd\": 1}\n"
T_result_str == "{\"type\": \"result\", \"cost_usd\": \"free\"}\n"
T_other == "{\"type\": \"ping\"}\n"
T_number == "42\n"
T_malformed == "{\"type\": \n"
T_plain == "done, no json here"
T_blank == "   \n"
T_empty == "\n"

Texts == {T_init, T_assistant, T_assistant_str, T_result, T_result_str,
          T_other, T_number, T_malformed, T_plain, T_blank, T_empty}

\* str.strip on the sample texts
strip_text(s) ==
    CASE s = T_init -> "{\"type\": \"system\", \"subtype\": \"init\", \"session_id\": \"s1\"}"
      [] s = T_assistant -> "{\"type\": \"assistant\", \"message\": {\"content\": \"working\"}}"
      [] s = T_assistant_str -> "{\"type\": \"assistant\", \"message\": \"working\"}"
      [] s = T_result -> "{\"type\": \"result\", \"subtype\": \"success\", \"cost_usd\": 1}"
      [] s = T_result_str -> "{\"type\": \"result\", \"cost_usd\": \"free\"}"
      [] s = T_other -> "{\"type\": \"ping\"}"
      [] s = T_number -> "42"
      [] s = T_malformed -> "{\"type\":"
      [] s = T_blank -> ""
      [] s = T_empty -> ""
      [] OTHER -> s

\* json.loads on the sample texts (it skips surrounding whitespace itself):
\* [ok |-> TRUE, v |-> value], or [ok |-> FALSE] for JSONDecodeError
json_loads(s) ==
    CASE strip_text(s) = strip_text(T_init) ->
           [ok |-> TRUE, v |-> JObj([type |-> JStr("system"), subtype |-> JStr("init"),
                                     session_id |-> JStr("s1")])]
      [] strip_text(s) = strip_text(T_assistant) ->
           [ok |-> TRUE, v |-> JObj([type |-> JStr("assistant"),
                                     message |-> JObj([content |-> JStr("working")])])]
      [] strip_text(s) = strip_text(T_assistant_str) ->
           [ok |-> TRUE, v |-> JObj([type |-> JStr("assistant"),
                                     message |-> JStr("working")])]
      [] strip_text(s) = strip_text(T_result) ->
           [ok |-> TRUE, v |-> JObj([type |-> JStr("result"), subtype |-> JStr("success"),
                                     cost_usd |-> JNum(1)])]
      [] strip_text(s) = strip_text(T_result_str) ->
           [ok |-> TRUE, v |-> JObj([type |-> JStr("result"), cost_usd |-> JStr("free")])]
      [] strip_text(s) = strip_text(T_other) ->
           [ok |-> TRUE, v |-> JObj([type |-> JStr("ping")])]
      [] strip_text(s) = strip_text(T_number) ->
           [ok |-> TRUE, v |-> JNum(42)]
      [] OTHER -> [ok |-> FALSE]

\* mutant of handle_json_output: the raw field holds the stripped text
handle_json_output_stripped(output) ==
    IF json_loads(output).ok
    THEN json_loads(output).v
    ELSE JObj([error |-> JStr("Failed to parse JSON output"),
               raw |-> JStr(strip_text(output))])

\* lines 89-95: the parsed document, or the synthetic error object
handle_json_output(output) ==
    IF json_loads(output).ok
    THEN json_loads(output).v
    ELSE JObj([error |-> JStr("Failed to parse JSON output"), raw |-> JStr(output)])

\* format(x, ".4f") accepts numbers (and booleans) only
FormatsAsFloat(v) == v.t \in {"num", "bool"}

\* lines 358-374: the summary is printed for a dict of type "result"; the
\* cost is formatted with :.4f
JsonSummaryApplies(v) == IsDict(v) /\ Get(v, "type", JNone) = JStr("result")
JsonSummaryRaises(v) == JsonSummaryApplies(v) /\ ~FormatsAsFloat(Get(v, "cost_usd", JNum(0)))

\* lines 333-346: subprocess.run(cmd, capture_output=True, text=True), up to
\* the start of the child; only FileNotFoundError is handled
launch_json ==
    /\ pc = "json"
    /\ \E o \in Outcomes :
        /\ launches' = Append(launches, Attempt(o))
        /\ CASE o = "ok" ->
                  /\ child' = Running
                  /\ pc' = "json_wait"
                  /\ UNCHANGED <<cur, err, exc, trace, exit>>
             [] o = "FileNotFoundError" ->
                  /\ err' = Append(err, "Headless CLI not found. Falling back to noop")
                  /\ CallNoop
                  /\ UNCHANGED <<child, exc, trace, exit>>
             [] o = "OSError" ->
                  /\ Unexpected(o)
                  /\ UNCHANGED <<child, cur>>
    /\ UNCHANGED <<sigint, args, env, prompt, resolved_cli, cmd, ps, lines, out>>

\* lines 334 and 347-374: the child exits with its captured output
json_wait ==
    /\ pc = "json_wait"
    /\ \E rc \in ExitCodes, output \in Texts :
        /\ child' = [Exited(rc) EXCEPT !.stdout = output]
        /\ IF rc # 0
           THEN /\ SysExitCode(rc)
                /\ UNCHANGED <<out, exc, trace>>
           ELSE /\ out' = Append(out, Json(handle_json_output(output)))
                /\ IF JsonSummaryRaises(handle_json_output(output))
                   THEN /\ \E w \in {"written", "failed"} : trace' = w
                        /\ exc' = "ValueError"
                        /\ exit' = 1
                        /\ pc' = "done"
                        /\ err' = err \o <<"Summary:", "  Success:", "An unexpected error occurred">>
                   ELSE /\ Return
                        /\ err' = err
                                  \o (IF json_loads(output).ok THEN <<>>
                                      ELSE <<"Error parsing JSON output">>)
                                  \o (IF JsonSummaryApplies(handle_json_output(output))
                                      THEN <<"Summary:", "  Success:", "  Cost:", "  Duration:", "  Session:">>
                                      ELSE <<>>)
                        /\ UNCHANGED <<exc, trace>>
    /\ UNCHANGED <<sigint, args, env, prompt, cur, resolved_cli, cmd, ps, launches, lines>>

\* ------------------------------------------------------ stream-json mode
EmptyDict == JObj(<<>>)

\* x[:100] is defined for strings and lists
Sliceable(v) == v.t \in {"str", "list"}

\* lines 280-313: which branch of the loop body takes the event
Branch(message) ==
    IF Get(message, "type", JNone) = JStr("system")
       /\ Get(message, "subtype", JNone) = JStr("init") THEN "init"
    ELSE IF Get(message, "type", JNone) = JStr("assistant") THEN "assistant"
    ELSE IF Get(message, "type", JNone) = JStr("result") THEN "result"
    ELSE "none"

\* lines 280-313: the loop body raises before the echo when the event is not
\* a dict (message.get), when an assistant event's message is not a dict or
\* its content cannot be sliced, when a result event's cost is not a number
BodyRaises(message) ==
    \/ ~IsDict(message)
    \/ /\ IsDict(message)
       /\ Branch(message) = "assistant"
       /\ \/ ~IsDict(Get(message, "message", EmptyDict))
          \/ ~Sliceable(Get(Get(message, "message", EmptyDict), "content", JStr("")))
    \/ /\ IsDict(message)
       /\ Branch(message) = "result"
       /\ ~FormatsAsFloat(Get(message, "cost_usd", JNum(0)))

\* lines 284-313: progress lines on the error stream for a recognised event
Progress(message) ==
    CASE Branch(message) = "init" -> <<"Session started">>
      [] Branch(message) = "assistant" -> <<"Assistant:">>
      [] Branch(message) = "result" ->
           <<"Final result:", "  Success:", "  Cost:", "  Duration:", "  Turns:">>
           \o (IF "result" \in DOMAIN message.o THEN <<"Result text:">> ELSE <<>>)
      [] OTHER -> <<>>

\* lines 271-277: subprocess.Popen(cmd, stdout=PIPE, stderr=PIPE); it stands
\* before the try block of the relay and no handler takes its failure
popen ==
    /\ pc = "stream-json"
    /\ \E o \in Outcomes :
        /\ launches' = Append(launches, Attempt(o))
        /\ IF o = "ok"
           THEN /\ child' = Running
                /\ pc' = "stream_read"
                /\ UNCHANGED <<err, exc, trace, exit>>
           ELSE /\ Unexpected(o)
                /\ UNCHANGED child
    /\ UNCHANGED <<sigint, args, env, prompt, cur, resolved_cli, cmd, ps, lines, out>>

\* lines 79-86 and 279-315: one iteration of the relay: the generator reads
\* a line, strips it, skips it when blank, warns when it does not parse, and
\* otherwise yields the event to the loop body, which reports and echoes it
stream_json_output ==
    /\ pc = "stream_read"
    /\ ~child.blocked
    /\ Len(lines) < MaxLines
    /\ \E line \in Texts :
        /\ lines' = Append(lines, line)
        /\ IF strip_text(line) = ""
           THEN UNCHANGED <<pc, out, err, exc, trace, exit>>
           ELSE IF ~json_loads(strip_text(line)).ok
           THEN /\ err' = err \o <<"Warning: Failed to parse JSON line", "Line content">>
                /\ UNCHANGED <<pc, out, exc, trace, exit>>
           ELSE IF BodyRaises(json_loads(strip_text(line)).v)
           THEN /\ Unexpected("relay")
                /\ UNCHANGED out
           ELSE /\ err' = err \o Progress(json_loads(strip_text(line)).v)
                /\ out' = Append(out, Json(json_loads(strip_text(line)).v))
                /\ UNCHANGED <<pc, exc, trace, exit>>
    /\ UNCHANGED <<sigint, args, env, prompt, cur, resolved_cli, cmd, ps, child, launches>>

\* lines 271-277 and 319: stderr=subprocess.PIPE, read only at line 319 after
\* the child has exited.  The streaming child writes one more unit to its
\* standard error: the pipe takes it, or the pipe is full and the child
\* stays blocked in the write, neither writing a line nor closing its
\* standard output nor exiting, until somebody reads the pipe.
child_stderr ==
    /\ pc \in {"stream_read", "stream_wait"}
    /\ child.state = "running"
    /\ ~child.blocked
    /\ IF child.errpipe < PipeCap
       THEN child' = [child EXCEPT !.errpipe = child.errpipe + 1]
       ELSE child' = [child EXCEPT !.blocked = TRUE]
    /\ UNCHANGED <<sigint, args, env, prompt, cur, resolved_cli, cmd, ps, launches,
                   lines, out, err, exc, trace, exit, pc>>

\* line 79: the child closed its standard output, the generator is exhausted
stream_eof ==
    /\ pc = "stream_read"
    /\ ~child.blocked
    /\ pc' = "stream_wait"
    /\ UNCHANGED <<sigint, args, env, prompt, cur, resolved_cli, cmd, ps, child,
                   launches, lines, out, err, exc, trace, exit>>

\* lines 317-325: process.wait() returns; the exit-code check
stream_wait ==
    /\ pc = "stream_wait"
    /\ ~child.blocked
    /\ \E rc \in ExitCodes :
        /\ child' = Exited(rc)
        /\ IF rc # 0
           THEN SysExitCode(rc)
           ELSE Return /\ UNCHANGED err
    /\ UNCHANGED <<sigint, args, env, prompt, cur, resolved_cli, cmd, ps, launches,
                   lines, out, exc, trace>>

\* mutant of interrupt: the handler exits without process.terminate()
interrupt_no_terminate ==
    /\ pc \in {"stream_read", "stream_wait"}
    /\ err' = Append(err, "Interrupted by user")
    /\ exit' = 1
    /\ pc' = "done"
    /\ sigint' = TRUE
    /\ UNCHANGED <<args, env, prompt, cur, resolved_cli, cmd, ps, launches,
                   lines, out, exc, trace, child>>

\* lines 327-330: KeyboardInterrupt inside the try block (the read loop and
\* process.wait()): process.terminate(), message, sys.exit(1)
interrupt ==
    /\ pc \in {"stream_read", "stream_wait"}
    /\ child' = [child EXCEPT !.terminated = TRUE]
    /\ err' = Append(err, "Interrupted by user")
    /\ exit' = 1
    /\ pc' = "done"
    /\ sigint' = TRUE
    /\ UNCHANGED <<args, env, prompt, cur, resolved_cli, cmd, ps, launches,
                   lines, out, exc, trace>>

Next ==
    \/ main_validate
    \/ main_chdir
    \/ build_prompt
    \/ run_model
    \/ resolve
    \/ ps_start
    \/ ps_finish
    \/ resolved
    \/ launch_interactive
    \/ interactive_wait
    \/ launch_text
    \/ text_wait
    \/ launch_json
    \/ json_wait
    \/ popen
    \/ stream_json_output
    \/ child_stderr
    \/ stream_eof
    \/ stream_wait
    \/ interrupt

Spec == Init /\ [][Next]_vars

\* the steps of the caller thread and of a child that is not blocked: every
\* step but the user's interrupt and the child's choice to write to stderr
ProgramNext ==
    \/ main_validate \/ main_chdir \/ build_prompt \/ run_model \/ resolve
    \/ ps_start \/ ps_finish \/ resolved
    \/ launch_interactive \/ interactive_wait \/ launch_text \/ text_wait
    \/ launch_json \/ json_wait
    \/ popen \/ stream_json_output \/ stream_eof \/ stream_wait

\* the interpreter keeps executing the single thread, and a child that can
\* run goes on to its exit
FairSpec == Spec /\ WF_vars(ProgramNext)

\* --------------------------------------------- the command builders alone
\* all prompts of at most MaxPromptLen characters
CharSeqs == UNION {[1..n -> Alphabet] : n \in 0..MaxPromptLen}

\* lines 140-146 and 228: run_model at the point where the command is
\* built, for every prompt, real driver, resolved executable, mode and format
InitBuild ==
    /\ pc = "build_cmd"
    /\ prompt \in CharSeqs
    /\ cur \in [driver : RealDrivers, cli : {"/bin/codex", "/bin/mycli"},
                interactive : BOOLEAN, output_format : Formats]
    /\ args = [prp_given |-> TRUE, driver |-> cur.driver, cli |-> None,
               interactive |-> cur.interactive, output_format |-> cur.output_format]
    /\ env = [doc_exists |-> TRUE, onPath |-> TRUE, win |-> FALSE, pwsh |-> "none"]
    /\ resolved_cli = cur.cli
    /\ cmd = <<>>
    /\ ps = [idx |-> 0, alive |-> FALSE, n |-> 0]
    /\ child = NoChild
    /\ launches = <<>>
    /\ lines = <<>>
    /\ out = <<>>
    /\ err = <<>>
    /\ exc = None
    /\ trace = "none"
    /\ exit = -1
    /\ sigint = FALSE

\* lines 231-234: cmd = _build_cmd_codex(...) or _build_cmd_claude(...)
build_cmd ==
    /\ pc = "build_cmd"
    /\ cmd' = BuildCmd(cur.driver, cur.interactive, cur.output_format, cur.cli, prompt)
    /\ pc' = "built"
    /\ UNCHANGED <<sigint, args, env, prompt, cur, resolved_cli, ps, child, launches,
                   lines, out, err, exc, trace, exit>>

NextBuild == build_cmd

SpecBuild == InitBuild /\ [][NextBuild]_vars

\* ------------------------------------------------------------ properties
Done == pc = "done"
RealDriver == args.driver \in RealDrivers
\* run_model was entered: the arguments were valid and the prompt was built
Entered == prompt # Unbuilt
Last(q) == q[Len(q)]

\* the executable of this run cannot be resolved: not on the search path
\* and, on Windows, not found by either PowerShell helper
ResolutionFails == ~env.onPath /\ (~env.win \/ env.pwsh = "none")

\* C1: a real-driver run whose child exits with a non-zero code c ends with
\* exit status c, in every launch mode.
C1_ChildExitCodePropagates ==
    (Done /\ RealDriver /\ child.state = "exited" /\ child.rc # 0)
        => exit = child.rc

\* C2: when resolution fails for a real driver the run starts no agent
\* child, prints exactly what the no-operation driver prints for the same
\* interactive flag and output format, and ends with exit status 0.
C2_ResolutionFallback ==
    (Entered /\ RealDriver /\ ResolutionFails)
        => /\ launches = <<>>
           /\ child = NoChild
           /\ Done => /\ exit = 0
                       /\ out = NoopOutput(args.interactive, args.output_format, prompt)

C2_Witness ==
    /\ Done /\ RealDriver /\ ResolutionFails /\ Entered
    /\ args.interactive
    /\ Len(out) = 3

\* C3 as stated: with an explicit --cli override the run attempts a launch
\* with the override string itself, found on the search path or not.
C3_OverrideVerbatim ==
    (Done /\ Entered /\ RealDriver /\ args.cli # None)
        => /\ Len(launches) >= 1
           /\ launches[1].exe = args.cli

\* C3 amended: an override is resolved like the default name: when the
\* lookup finds it every launch uses the resolved path, and when it does not
\* the run falls back to the no-operation driver without any launch.
C3_OverrideResolved ==
    (Done /\ Entered /\ RealDriver /\ args.cli # None)
        => IF ResolutionFails
           THEN /\ launches = <<>>
                /\ out = NoopOutput(args.interactive, args.output_format, prompt)
                /\ exit = 0
           ELSE /\ Len(launches) >= 1
                /\ \A i \in 1..Len(launches) : launches[i].exe = PathOf(args.cli)

C3_Witness ==
    /\ Done /\ RealDriver /\ args.cli = Override
    /\ Len(launches) = 1
    /\ launches[1].exe = "/bin/mycli"
    /\ launches[1].outcome = "ok"

\* C4: every unexpected exception raised after argument validation is
\* caught at the top level: the trace file is written (the write is at
\* least attempted) and the run exits with status 1.
C4_UnexpectedCaught ==
    (Done /\ exc # None) => (trace # "none" /\ exit = 1)

\* C5: an argument error (no --prp/--prp-path, or a document path that does
\* not exist) ends the run at once with a non-zero status: the prompt is
\* never built, nothing is resolved or launched, no trace file is written.
ArgumentError == ~args.prp_given \/ ~env.doc_exists

C5_ArgumentErrorExit ==
    ArgumentError
        => /\ pc \in {"main", "done"}
           /\ prompt = Unbuilt
           /\ resolved_cli = None /\ ps.n = 0
           /\ launches = <<>> /\ child = NoChild
           /\ trace = "none"
           /\ Done => exit \in 1..255

C5_Witness ==
    /\ Done /\ args.prp_given /\ ~env.doc_exists
    /\ exit = 1 /\ err = <<"PRP not found">>

\* the last launch started a child in the given headless output mode
Started(fmt) ==
    /\ launches # <<>>
    /\ Last(launches).outcome = "ok"
    /\ ~Last(launches).interactive
    /\ Last(launches).output_format = fmt

\* the kinds of a child output line
LineKind(line) ==
    IF strip_text(line) = "" THEN "blank"
    ELSE IF ~json_loads(strip_text(line)).ok THEN "malformed"
    ELSE IF IsDict(json_loads(strip_text(line)).v) THEN "object"
    ELSE "value"

RECURSIVE Objects(_)
\* the events of the JSON-object lines of q, in line order
Objects(q) ==
    IF q = <<>> THEN <<>>
    ELSE (IF LineKind(Head(q)) = "object"
          THEN <<Json(json_loads(strip_text(Head(q))).v)>> ELSE <<>>)
         \o Objects(Tail(q))

Count(q, P(_)) == Cardinality({i \in 1..Len(q) : P(q[i])})
IsMalformed(line) == LineKind(line) = "malformed"
IsWarning(tag) == tag = "Warning: Failed to parse JSON line"

\* C6: in stream-json mode, when every child line is blank, malformed or a
\* JSON object, the events echoed on standard output are exactly the object
\* lines in order, every malformed line gives one warning, and the relay
\* is not stopped before the exit-code check (unless interrupted).
C6_StreamEchoesObjects ==
    (Started("stream-json")
     /\ \A i \in 1..Len(lines) : LineKind(lines[i]) \in {"blank", "malformed", "object"})
        => /\ out = Objects(lines)
           /\ Count(err, IsWarning) = Count(lines, IsMalformed)
           /\ (Done /\ ~sigint) => child.state = "exited"

\* C7: an interrupt delivered while the streaming relay reads or waits
\* sends the child a terminate request and ends the run with status 1.
C7_InterruptTerminatesChild ==
    sigint => (Done /\ Started("stream-json") /\ child.terminated /\ exit = 1)

C7_Witness ==
    /\ sigint /\ Done /\ child.terminated
    /\ Len(lines) >= 1

\* C8: in headless json mode a child that exits with code 0 and whose output
\* is not a JSON document makes the run print one object with an error
\* field and a raw field equal to the child's output, and exit with 0.
C8_JsonParseFailureWrapped ==
    (Done /\ Started("json") /\ child.state = "exited" /\ child.rc = 0
     /\ ~json_loads(child.stdout).ok)
        => /\ exit = 0
           /\ exc = None
           /\ Len(out) = 1
           /\ out[1].k = "json"
           /\ IsDict(out[1].j)
           /\ DOMAIN out[1].j.o = {"error", "raw"}
           /\ out[1].j.o.raw = JStr(child.stdout)

C8_Witness ==
    /\ Done /\ Started("json") /\ child.rc = 0
    /\ child.stdout = T_malformed
    /\ exit = 0

\* C9: an interactive launch that fails with executable-not-found falls
\* back to the no-operation driver with the same interactive flag and
\* output format and ends with status 0; there is no headless retry.
C9_InteractiveNotFoundNoop ==
    (launches # <<>> /\ launches[1].interactive
     /\ launches[1].outcome = "FileNotFoundError")
        => /\ Len(launches) = 1
           /\ child = NoChild
           /\ Done => /\ exit = 0
                       /\ out = NoopOutput(TRUE, args.output_format, prompt)

C9_Witness ==
    /\ Done /\ Len(launches) = 1
    /\ launches[1].interactive /\ launches[1].outcome = "FileNotFoundError"
    /\ args.output_format = "json"
    /\ exit = 0

\* C10: an interactive launch that fails with another operating-system
\* error is retried exactly once, with the same driver and executable, in
\* headless mode with output format text, whatever format was requested;
\* a failing retry is not retried.
C10_RetryOnceHeadlessText ==
    (launches # <<>> /\ launches[1].interactive /\ launches[1].outcome = "OSError")
        => /\ Len(launches) <= 2
           /\ Len(launches) = 2 =>
                 /\ launches[2].driver = launches[1].driver
                 /\ launches[2].exe = launches[1].exe
                 /\ ~launches[2].interactive
                 /\ launches[2].output_format = "text"
           /\ Done => Len(launches) = 2

C10_Witness ==
    /\ Done /\ Len(launches) = 2
    /\ launches[1].interactive /\ launches[1].outcome = "OSError"
    /\ launches[2].outcome = "OSError"
    /\ args.output_format = "json"

\* C11: the no-operation driver in headless mode starts no process, ends
\* with status 0 and prints: in text mode the marker; in json mode one
\* document of type "result" with is_error false and result the marker; in
\* stream-json mode four events system/init, assistant, assistant, result,
\* the last with subtype "success".
TypeOf(item) == Get(item.j, "type", JNone)

C11_NoopHeadlessOutput ==
    (Done /\ Entered /\ args.driver = "noop" /\ ~args.interactive)
        => /\ launches = <<>> /\ child = NoChild /\ ps.n = 0
           /\ exit = 0
           /\ args.output_format = "text" => out = <<Txt("PRP TEST OK")>>
           /\ args.output_format = "json" =>
                /\ Len(out) = 1
                /\ out[1].k = "json"
                /\ TypeOf(out[1]) = JStr("result")
                /\ Get(out[1].j, "is_error", JNone) = JBool(FALSE)
                /\ Get(out[1].j, "result", JNone) = JStr("PRP TEST OK")
           /\ args.output_format = "stream-json" =>
                /\ Len(out) = 4
                /\ \A i \in 1..4 : out[i].k = "json"
                /\ TypeOf(out[1]) = JStr("system")
                /\ Get(out[1].j, "subtype", JNone) = JStr("init")
                /\ TypeOf(out[2]) = JStr("assistant")
                /\ TypeOf(out[3]) = JStr("assistant")
                /\ TypeOf(out[4]) = JStr("result")
                /\ Get(out[4].j, "subtype", JNone) = JStr("success")

C11_Witness ==
    /\ Done /\ args.driver = "noop" /\ ~args.interactive
    /\ args.output_format = "stream-json"
    /\ Len(out) = 4 /\ exit = 0

\* C12: driver A (codex): the command vector is the executable and the
\* flattened prompt: the prompt's lines, each trimmed, joined by single
\* spaces, trimmed; it holds no line break, keeps the prompt's other
\* characters, and is the same for both modes and every output format.
NotBlank(c) == c \notin Whitespace

C13_ClaudeCommand ==
    (pc = "built" /\ cur.driver = "claude")
        => IF cur.interactive
           THEN /\ cmd = <<Lit(cur.cli), Lit("--allowedTools"), Lit(ALLOWED_TOOLS)>>
                /\ \A i \in 1..Len(cmd) : cmd[i] # Chars(prompt)
           ELSE cmd = <<Lit(cur.cli), Lit("-p"), Chars(prompt), Lit("--allowedTools"),
                        Lit(ALLOWED_TOOLS), Lit("--output-format"),
                        Lit(cur.output_format)>>

C13_Witness ==
    /\ pc = "built" /\ cur.driver = "claude" /\ ~cur.interactive
    /\ cur.output_format = "stream-json"
    /\ prompt = <<"a", "\n", "a">>
    /\ Len(cmd) = 7 /\ cmd[3] = Chars(<<"a", "\n", "a">>)

\* C14: a real driver whose resolved executable is not found when the
\* headless launch is attempted falls back to the no-operation driver and
\* ends with status 0, in text, json and stream-json mode.
C14_HeadlessNotFoundNoop ==
    (Done /\ launches # <<>> /\ ~Last(launches).interactive
     /\ Last(launches).outcome = "FileNotFoundError")
        => /\ exit = 0
           /\ out = NoopOutput(FALSE, Last(launches).output_format, prompt)

\* C15: at most one process started by the run (agent child or lookup
\* helper) is alive at any time, and a process is started only when none
\* is alive.
AliveCount ==
    (IF ps.alive THEN 1 ELSE 0) + (IF child.state = "running" THEN 1 ELSE 0)

C15_StartUnderNone ==
    (Len(launches') > Len(launches) \/ ps'.n > ps.n) => AliveCount = 0

C15_OneChildAtATime == [](AliveCount <= 1) /\ [][C15_StartUnderNone]_vars

C15_Witness ==
    /\ ps.n = 2 /\ ~ps.alive
    /\ Len(launches) = 2
    /\ child.state = "running"

\* C16: the fallbacks are acyclic and bounded: a run that entered the
\* no-operation driver only returns; no interactive launch follows a
\* headless one; there are at most two launch attempts; and a run whose
\* children all exit reaches a terminal state.
C16_History ==
    /\ Len(launches) <= 2
    /\ \A i, j \in 1..Len(launches) :
         (i < j /\ ~launches[i].interactive) => ~launches[j].interactive

C16_NoopOnlyReturns ==
    cur.driver = "noop"
        => /\ pc' = "done"
           /\ launches' = launches /\ child' = child
           /\ resolved_cli' = resolved_cli /\ ps' = ps

C16_BoundedFallback ==
    /\ []C16_History
    /\ [][C16_NoopOnlyReturns]_vars
    /\ <>(Done \/ child.blocked)

C16_Witness ==
    /\ Done /\ cur.driver = "noop"
    /\ Len(launches) = 1 /\ launches[1].output_format = "json"
    /\ launches[1].outcome = "FileNotFoundError"

\* C17: the streaming relay and the child never wait for each other: there
\* is no state in which the relay waits for a line, the end of the stream or
\* the child's exit while the child is blocked writing to the pipe of its
\* standard error, which the relay reads only after the exit.
C17_RelayNeverStuck ==
    ~(/\ pc \in {"stream_read", "stream_wait"}
      /\ child.state = "running"
      /\ child.blocked)

\* C18: a line that is valid JSON but no object, or an assistant event with
\* a message or content of unexpected type, does not abort the stream: the
\* relay goes on and reaches the exit-code check.
OddLine(line) ==
    \/ LineKind(line) = "value"
    \/ /\ LineKind(line) = "object"
       /\ Branch(json_loads(strip_text(line)).v) = "assistant"

WellTypedLine(line) ==
    LineKind(line) = "object" => ~BodyRaises(json_loads(strip_text(line)).v)

C18_OddEventsDoNotAbort ==
    (Done /\ ~sigint /\ Started("stream-json")
     /\ \A i \in 1..Len(lines) : OddLine(lines[i]) \/ WellTypedLine(lines[i]))
        => /\ exc = None
           /\ child.state = "exited"

\* C19: when a run that started a streaming child ends, the child has
\* exited or has been sent a terminate request.
C19_NoChildLeftRunning ==
    (Done /\ Started("stream-json"))
        => (child.state = "exited" \/ child.terminated)
====
